---- MODULE Spec2Model ----
(***************************************************************************)
(* GB FloodGuard (src/app.py): a Streamlit script that is re-run on every  *)
(* user interaction.  Each run checks the API key, optionally handles the  *)
(* "Check Flood Risk" button, renders the current-data panel and draws one *)
(* map marker per city.  get_weather is wrapped in st.cache_data(ttl=1800).*)
(*                                                                         *)
(* Numbers: the provider sends decimals with two places, written here in   *)
(* hundredths (30.01 mm is 3001).  The program holds them as IEEE-754       *)
(* doubles: a double is [h, e], standing for h/100 + e/(100 * 2^59), the   *)
(* decimal it is nearest to and its exact distance from it.  All doubles   *)
(* met here (magnitude below 256) are whole multiples of that unit.        *)
(* Values rounded to one decimal are in tenths.                            *)
(* Python's None is the empty tuple and a present value x is <<x>>.        *)
(***************************************************************************)
EXTENDS Integers, Sequences, FiniteSets, TLC

VARIABLES
    api_key,      \* os.getenv("OPENWEATHER_API_KEY"): None or <<string>>
    now,          \* wall clock, seconds
    cache,        \* st.cache_data store of get_weather: city -> None or <<[value, stamp]>>
    current,      \* st.session_state: None when "current" is not in it, else <<value stored>>
    city,         \* value of the selectbox in this run
    pressed,      \* st.button("Check Flood Risk") returned True in this run
    pc,           \* position of the script run
    idx,          \* position of the map loop in CITIES
    resp,         \* provider response of the request in flight / last received
    result,       \* what the last get_weather call returned
    reqLog,       \* city -> times at which requests.get was issued for it
    errShown,     \* st.error(err) of the button handler in this run
    panel,        \* assessment rendered by the current-data panel in this run
    markers,      \* city -> assessment drawn as a map marker in this run
    curReqs       \* number of requests issued for the city of current when it was stored

vars == <<api_key, now, cache, current, city, pressed, pc, idx, resp, result,
          reqLog, errShown, panel, markers, curReqs>>

None == <<>>
Some(x) == <<x>>

\* ------------------------------------------------------------ constants
CITIES == <<"Gilgit", "Skardu", "Hunza">>
CityNames == {CITIES[i] : i \in 1..Len(CITIES)}
RAIN_THRESHOLD == 30
TTL == 1800

\* ------------------------------------------------------------ bounds
MaxTime == 2000
MaxSamples == 4
Deltas == {1000}

\* ------------------------------------------------------------ pure helpers
\* Python truthiness of an optional string: None and "" are falsy.
Truthy(s) == s # None /\ s[1] # ""

RECURSIVE Pow2(_)
Pow2(n) == IF n = 0 THEN 1 ELSE 2 * Pow2(n - 1)

RECURSIVE Pow2Mod(_, _)
Pow2Mod(n, m) == IF n = 0 THEN 1 % m ELSE (2 * Pow2Mod(n - 1, m)) % m

\* the powers of two the exponents -7..7 need, computed once
Pow2s == [n \in 0..15 |-> Pow2(n)]
Pow2Mod200s == [n \in 45..59 |-> Pow2Mod(n, 200)]

\* 2^x <= h/100, for x in -7..8
AtLeastPow2(h, x) == IF x >= 0 THEN h >= 100 * Pow2s[x] ELSE h * Pow2s[-x] >= 100

\* h/100 = 2^x
IsPow2(h, x) == IF x >= 0 THEN h = 100 * Pow2s[x] ELSE h * Pow2s[-x] = 100

\* The exponent of h/100 + e/(100 * 2^59), given x, that of h/100: one less
\* when the value lies just below the power of two.
ExponentNear(h, e, x) == IF IsPow2(h, x) /\ e < 0 THEN x - 1 ELSE x

\* The binary exponent of a positive value h/100 + e/(100 * 2^59), h >= 1.
Exponent(h, e) ==
    ExponentNear(h, e, CHOOSE k \in -7..7 : AtLeastPow2(h, k) /\ ~AtLeastPow2(h, k + 1))

\* Round-to-nearest, ties-to-even: low is the excess over the double below,
\* ulp the spacing, odd whether the double below has an odd significand.
RoundTo(h, e, ulp, low, odd) ==
    IF low = 0 THEN [h |-> h, e |-> e]
    ELSE IF 2 * low < ulp THEN [h |-> h, e |-> e - low]
    ELSE IF 2 * low > ulp THEN [h |-> h, e |-> e + ulp - low]
    ELSE IF odd THEN [h |-> h, e |-> e + ulp - low]
    ELSE [h |-> h, e |-> e - low]

\* r2 is the value modulo twice the spacing
RoundIn(h, e, ulp, r2) == RoundTo(h, e, ulp, r2 % ulp, r2 >= ulp)

\* 53-bit significand: the spacing at exponent x is 100 * 2^(x+7) units
RoundAt(h, e, x) ==
    RoundIn(h, e, 100 * Pow2s[x + 7],
            (Pow2s[x + 7] * ((h * Pow2Mod200s[52 - x]) % 200) + e) % (200 * Pow2s[x + 7]))

\* The double nearest to a non-negative exact value.
RoundMagnitude(h, e) ==
    IF h = 0 THEN [h |-> h, e |-> e] ELSE RoundAt(h, e, Exponent(h, e))

Scaled(s, x) == [h |-> s * x.h, e |-> s * x.e]

RoundSigned(s, h, e) == Scaled(s, RoundMagnitude(s * h, s * e))

\* The double nearest to the exact value h/100 + e/(100 * 2^59).
RoundDouble(h, e) == RoundSigned(IF h < 0 \/ (h = 0 /\ e < 0) THEN -1 ELSE 1, h, e)

\* .json(): a decimal of the response text becomes the nearest double
FromDecimal(h) == RoundDouble(h, 0)

\* the int 0: the start of sum() and the default of .get("3h", 0)
DZero == [h |-> 0, e |-> 0]

\* a + b on doubles
DAdd(a, b) == RoundDouble(a.h + b.h, a.e + b.e)

\* a > n for a double a and an int n
DGreater(a, n) == a.h > n * 100 \/ (a.h = n * 100 /\ a.e > 0)

\* round(x, 1) of a double, result in tenths: the exact binary value decides,
\* and only a double that is exactly halfway goes to the even tenth.
Round1(x) ==
    LET q == x.h \div 10
        r == x.h % 10
    IN  IF r < 5 THEN q
        ELSE IF r > 5 THEN q + 1
        ELSE IF x.e > 0 THEN q + 1
        ELSE IF x.e < 0 THEN q
        ELSE IF q % 2 = 0 THEN q ELSE q + 1

\* str.title() on the descriptions the provider sends in this model.
Title(s) ==
    CASE s = "light rain" -> "Light Rain"
      [] s = "clear sky" -> "Clear Sky"

\* entry.get("rain", {}).get("3h", 0)
RainOf(entry) ==
    IF entry.rain = None THEN DZero
    ELSE IF entry.rain[1].h3 = None THEN DZero
    ELSE FromDecimal(entry.rain[1].h3[1])

\* sum(): acc + x for each x in turn, left to right
RECURSIVE SumFrom(_, _)
SumFrom(acc, entries) ==
    IF entries = <<>> THEN acc
    ELSE SumFrom(DAdd(acc, RainOf(Head(entries))), Tail(entries))

SumRain(entries) == SumFrom(DZero, entries)

WholeList(list) == list

\* data["list"][:3]
FirstThree(list) == SubSeq(list, 1, IF Len(list) < 3 THEN Len(list) ELSE 3)

\* sum(entry.get("rain", {}).get("3h", 0) for entry in data["list"][:3])
Rain3h(list) == SumRain(FirstThree(list))

\* "HIGH" if rain_3h > RAIN_THRESHOLD else "LOW"
Risk(rain_3h) == IF DGreater(rain_3h, RAIN_THRESHOLD) THEN "HIGH" ELSE "LOW"

\* What get_weather hands back: (weather, err), or an exception that escaped.
Returned(weather, err) == [weather |-> weather, err |-> err, exc |-> None]
Escaped(e) == [weather |-> None, err |-> None, exc |-> Some(e)]

\* data.get("message", "Unknown error")
FailureAlwaysUnknown(data) == Returned(None, Some("Unknown error"))

ProviderFailure(data) ==
    Returned(None, IF data.message = None THEN Some("Unknown error") ELSE data.message)

\* The body of the try block: [raised, exc] when a statement raises,
\* [raised = FALSE, value] when it returns.
Raise(e) == [raised |-> TRUE, exc |-> e, value |-> Returned(None, None)]
Return(v) == [raised |-> FALSE, exc |-> "", value |-> v]

\* lines 62-68
Assessment(c, temp, desc, rain_3h) ==
    [city |-> c,
     temp |-> Round1(temp),
     desc |-> Title(desc),
     rain_3h |-> Round1(rain_3h),
     risk |-> Risk(rain_3h)]

\* lines 54-68, for data["list"] = list
Assess(c, list) ==
    IF list = <<>> THEN Raise("list index out of range")
    ELSE IF list[1].main = None THEN Raise("'main'")
    ELSE IF list[1].weather = None THEN Raise("'weather'")
    ELSE Return(Returned(
            Some(Assessment(c, FromDecimal(list[1].main[1]), list[1].weather[1],
                            Rain3h(list))),
            None))

TryBody(c, r) ==
    IF r.kind = "error" THEN Raise(r.exc)
    ELSE IF r.cod # Some("200") THEN Return(ProviderFailure(r))
    ELSE IF r.list = None THEN Raise("'list'")
    ELSE Assess(c, r.list[1])

TransportOnly(r, t) ==
    IF ~t.raised THEN t.value
    ELSE IF r.kind = "error" THEN Returned(None, Some("Request error: " \o t.exc))
    ELSE Escaped(t.exc)

\* except clause that only catches the transport's errors
CatchTransportOnly(c, r) == TransportOnly(r, TryBody(c, r))

\* except Exception as e: return None, f"Request error: {e}"
Except(t) ==
    IF t.raised THEN Returned(None, Some("Request error: " \o t.exc)) ELSE t.value

\* get_weather without its cache: try ... except Exception as e
GetWeatherBody(c, r) == Except(TryBody(c, r))

\* ------------------------------------------------------------ the cache
AnyAge(entry, t) == entry # None

NeverFresh(entry, t) == FALSE

\* st.cache_data(ttl=1800): an entry is served while younger than ttl
Fresh(entry, t) == entry # None /\ t < entry[1].stamp + TTL

StoreSuccessOnly(c, v, t) ==
    IF v.weather = None THEN [cache EXCEPT ![c] = None]
    ELSE [cache EXCEPT ![c] = Some([value |-> v, stamp |-> t])]

\* the cache after get_weather(c) computed v at time t
Store(c, v, t) == [cache EXCEPT ![c] = Some([value |-> v, stamp |-> t])]

\* ------------------------------------------------------------ API key check
NeverMissing(k) == FALSE

\* if not api_key
KeyMissing(k) == ~Truthy(k)

\* ------------------------------------------------------------ provider responses
RainValues == {112, 821, 2067, 3000, 3001}
RainFields == {None, Some([h3 |-> None])} \cup {Some([h3 |-> Some(v)]) : v \in RainValues}
GoodSample(r) == [rain |-> r, main |-> Some(1235), weather |-> Some("light rain")]
TailSamples == {GoodSample(r) : r \in RainFields}
HeadSamples ==
    TailSamples
    \cup {[rain |-> r, main |-> Some(-455), weather |-> Some("clear sky")] : r \in RainFields}
    \cup {[rain |-> r, main |-> None, weather |-> Some("clear sky")] : r \in RainFields}
    \cup {[rain |-> r, main |-> Some(-456), weather |-> None] : r \in RainFields}
Tails == UNION {[1..k -> TailSamples] : k \in 0..(MaxSamples - 1)}
Lists == {<<>>} \cup {<<h>> \o t : h \in HeadSamples, t \in Tails}

Json(cod, message, list) ==
    [kind |-> "json", exc |-> "", cod |-> cod, message |-> message, list |-> list]
NetError(e) ==
    [kind |-> "error", exc |-> e, cod |-> None, message |-> None, list |-> None]
Messages == {None, Some(""), Some("Invalid API key")}

Responses ==
    {Json(Some("200"), Some("0"), Some(l)) : l \in Lists}
    \cup {Json(Some("200"), Some("0"), None)}
    \cup {Json(c, m, None) : c \in {None, Some("401")}, m \in Messages}
    \cup {NetError("Connection refused"), NetError("Expecting value")}

\* rain given directly in hundredths of a mm
Rainy(v) == GoodSample(Some([h3 |-> Some(v)]))
RespLow == Json(Some("200"), Some("0"), Some(<<Rainy(1000), Rainy(1000), Rainy(500)>>))
RespHigh == Json(Some("200"), Some("0"), Some(<<Rainy(2000), Rainy(1500), Rainy(0)>>))
Wire ==
    {RespLow, RespHigh, Json(Some("401"), Some(""), None), NetError("Connection refused")}

NoResp == NetError("")
NoResult == Returned(None, None)

\* ------------------------------------------------------------ initial states
Init ==
    /\ api_key \in {None, Some(""), Some("k")}
    /\ now = 0
    /\ cache = [c \in CityNames |-> None]
    /\ current = None
    /\ city = CITIES[1]
    /\ pressed = FALSE
    /\ pc = "idle"
    /\ idx = 0
    /\ resp = NoResp
    /\ result = NoResult
    /\ reqLog = [c \in CityNames |-> <<>>]
    /\ errShown = None
    /\ panel = None
    /\ markers = [c \in CityNames |-> None]
    /\ curReqs = 0

\* ------------------------------------------------------------ the script run
\* A user interaction re-runs the script top to bottom with the widgets' values.
Rerun(c, p) ==
    /\ pc \in {"idle", "done", "stopped", "crashed"}
    /\ pc' = "startup"
    /\ city' = c
    /\ pressed' = p
    /\ idx' = 0
    /\ errShown' = None
    /\ panel' = None
    /\ markers' = [k \in CityNames |-> None]
    /\ resp' = NoResp
    /\ result' = NoResult
    /\ UNCHANGED <<api_key, now, cache, current, reqLog, curReqs>>

\* lines 12-19: st.stop() when the key is missing
Startup ==
    /\ pc = "startup"
    /\ pc' = IF KeyMissing(api_key) THEN "stopped"
             ELSE IF pressed THEN "button" ELSE "panel"
    /\ UNCHANGED <<api_key, now, cache, current, city, pressed, idx, resp, result,
                   reqLog, errShown, panel, markers, curReqs>>

\* lines 85-89, with (result, err) = v and n requests issued so far for city
Handle(v, n) ==
    IF Truthy(v.err)
    THEN /\ errShown' = v.err
         /\ UNCHANGED <<current, curReqs>>
    ELSE /\ current' = Some(v.weather)
         /\ curReqs' = n
         /\ UNCHANGED errShown

\* requests.get(url) leaves; the provider's answer is on its way
Request(c) ==
    /\ reqLog' = [reqLog EXCEPT ![c] = Append(@, now)]
    /\ resp' \in Wire

\* line 84: get_weather(city), served from the cache or sent to the provider
ButtonCall ==
    /\ pc = "button"
    /\ IF Fresh(cache[city], now)
       THEN /\ result' = cache[city][1].value
            /\ Handle(cache[city][1].value, Len(reqLog[city]))
            /\ pc' = "panel"
            /\ UNCHANGED <<resp, reqLog>>
       ELSE /\ Request(city)
            /\ pc' = "button_wait"
            /\ UNCHANGED <<result, current, curReqs, errShown>>
    /\ UNCHANGED <<api_key, now, cache, city, pressed, idx, panel, markers>>

\* lines 48-70 finish for the button's call; the value is cached
ButtonRespond ==
    /\ pc = "button_wait"
    /\ result' = GetWeatherBody(city, resp)
    /\ cache' = Store(city, result', now)
    /\ Handle(result', Len(reqLog[city]))
    /\ pc' = "panel"
    /\ UNCHANGED <<api_key, now, city, pressed, idx, resp, reqLog, panel, markers>>

ShowsAnyCity(cur, c) == IF cur # None THEN cur[1] ELSE None

\* line 94: "current" in st.session_state and st.session_state.current["city"] == city
PanelShows(cur, c) == IF cur # None /\ cur[1][1].city = c THEN cur[1] ELSE None

\* lines 94-108: None["city"] raises TypeError and ends the run
Panel ==
    /\ pc = "panel"
    /\ IF current # None /\ current[1] = None
       THEN /\ pc' = "crashed"
            /\ UNCHANGED <<panel, idx>>
       ELSE /\ panel' = PanelShows(current, city)
            /\ pc' = "map"
            /\ idx' = 1
    /\ UNCHANGED <<api_key, now, cache, current, city, pressed, resp, result,
                   reqLog, errShown, markers, curReqs>>

\* lines 131-149: if not weather: continue, else a CircleMarker
Draw(c, v) == markers' = [markers EXCEPT ![c] = v.weather]

\* lines 129-130: the next city of the map loop
MapCall ==
    /\ pc = "map"
    /\ idx <= Len(CITIES)
    /\ LET c == CITIES[idx]
       IN  IF Fresh(cache[c], now)
           THEN /\ result' = cache[c][1].value
                /\ Draw(c, cache[c][1].value)
                /\ idx' = idx + 1
                /\ UNCHANGED <<pc, resp, reqLog>>
           ELSE /\ Request(c)
                /\ pc' = "map_wait"
                /\ UNCHANGED <<result, markers, idx>>
    /\ UNCHANGED <<api_key, now, cache, current, city, pressed, errShown, panel, curReqs>>

MapRespond ==
    /\ pc = "map_wait"
    /\ result' = GetWeatherBody(CITIES[idx], resp)
    /\ cache' = Store(CITIES[idx], result', now)
    /\ Draw(CITIES[idx], result')
    /\ idx' = idx + 1
    /\ pc' = "map"
    /\ UNCHANGED <<api_key, now, current, city, pressed, resp, reqLog, errShown,
                   panel, curReqs>>

\* lines 151-169: the map and the footer are rendered
MapDone ==
    /\ pc = "map"
    /\ idx > Len(CITIES)
    /\ pc' = "done"
    /\ UNCHANGED <<api_key, now, cache, current, city, pressed, idx, resp, result,
                   reqLog, errShown, panel, markers, curReqs>>

\* Time passes between runs and while a request blocks.
Tick(d) ==
    /\ pc \in {"idle", "done", "stopped", "crashed", "button_wait", "map_wait"}
    /\ now + d <= MaxTime
    /\ now' = now + d
    /\ UNCHANGED <<api_key, cache, current, city, pressed, pc, idx, resp, result,
                   reqLog, errShown, panel, markers, curReqs>>

Next ==
    \/ \E c \in CityNames, p \in BOOLEAN : Rerun(c, p)
    \/ Startup
    \/ ButtonCall
    \/ ButtonRespond
    \/ Panel
    \/ MapCall
    \/ MapRespond
    \/ MapDone
    \/ \E d \in Deltas : Tick(d)

Spec == Init /\ [][Next]_vars

\* ------------------------------------------------------------ one evaluation
\* get_weather applied to one provider response: the button was pressed for
\* some city, nothing is cached, the request left at time 0.
InitEval ==
    /\ api_key = Some("k")
    /\ now = 0
    /\ cache = [c \in CityNames |-> None]
    /\ current = None
    /\ city \in CityNames
    /\ pressed = TRUE
    /\ pc = "button_wait"
    /\ idx = 0
    /\ resp \in Responses
    /\ result = NoResult
    /\ reqLog = [c \in CityNames |-> IF c = city THEN <<0>> ELSE <<>>]
    /\ errShown = None
    /\ panel = None
    /\ markers = [c \in CityNames |-> None]
    /\ curReqs = 0

NextEval == ButtonRespond

SpecEval == InitEval /\ [][NextEval]_vars

\* ------------------------------------------------------------ properties
\* The rain a forecast sample carries, read off the response directly.
Mm(list, i) ==
    IF i > Len(list) THEN 0
    ELSE IF list[i].rain = None THEN 0
    ELSE IF list[i].rain[1].h3 = None THEN 0
    ELSE list[i].rain[1].h3[1]

Evaluated == pc = "panel"

\* The exact total, in hundredths of a mm, of the first three samples.
ExactTotal(list) == Mm(list, 1) + Mm(list, 2) + Mm(list, 3)

\* C1: a successful evaluation is HIGH exactly when the rainfall total of the
\* first three samples is above 30.00 mm: a total of exactly 30.00 mm gives
\* LOW, a total of 30.01 mm gives HIGH.
C1_HighIffAboveThreshold ==
    (Evaluated /\ result.weather # None) =>
        LET total == ExactTotal(resp.list[1])
            risk == result.weather[1].risk
        IN  /\ risk \in {"HIGH", "LOW"}
            /\ risk = "HIGH" <=> total > 3000
            /\ total = 3000 => risk = "LOW"
            /\ total = 3001 => risk = "HIGH"

\* The first three samples' rain as sum() adds it: ((0 + x1) + x2) + x3.
FloatTotal(list) ==
    DAdd(DAdd(DAdd(DZero, FromDecimal(Mm(list, 1))), FromDecimal(Mm(list, 2))),
         FromDecimal(Mm(list, 3)))

\* The assessment w rests on the floating-point total and keeps to the exact one.
SumIs(w, total, exact) ==
    /\ w.rain_3h = Round1(total)
    /\ w.risk = IF DGreater(total, 30) THEN "HIGH" ELSE "LOW"
    /\ exact > 3000 => w.risk = "HIGH"
    /\ exact < 3000 => w.risk = "LOW"
    /\ w.rain_3h \in {exact \div 10, exact \div 10 + 1}

\* C2: with a success status and at least one well-formed first sample, the
\* evaluation succeeds and its total is the floating-point sum of the rain of
\* samples 1..min(3, n), a sample without precipitation counting 0; later
\* samples change nothing.  A total of 30.01 mm or more is HIGH, one of
\* 29.99 mm or less is LOW.
C2_SumOfFirstThree ==
    (/\ Evaluated
     /\ resp.kind = "json"
     /\ resp.cod = Some("200")
     /\ resp.list # None
     /\ Len(resp.list[1]) >= 1
     /\ resp.list[1][1].main # None
     /\ resp.list[1][1].weather # None) =>
        /\ result.weather # None
        /\ SumIs(result.weather[1], FloatTotal(resp.list[1]), ExactTotal(resp.list[1]))

C2_Witness ==
    /\ Evaluated
    /\ resp.list # None
    /\ Len(resp.list[1]) = 4
    /\ resp.list[1][2].rain = None
    /\ Mm(resp.list[1], 1) + Mm(resp.list[1], 3) = 3000
    /\ Mm(resp.list[1], 4) = 3001
    /\ result.weather # None
    /\ result.weather[1].risk = "LOW"
    /\ result.weather[1].rain_3h = 300

\* C3: two requests for the same city are never less than 1800 s apart.
C3_OneRequestPerWindow ==
    \A c \in CityNames : \A i \in 1..(Len(reqLog[c]) - 1) :
        reqLog[c][i + 1] - reqLog[c][i] >= 1800

\* A run with the button pressed, well inside the window of every city's
\* entry, has made its four calls without a request.
C3_Witness ==
    /\ pc = "map"
    /\ idx > Len(CITIES)
    /\ pressed
    /\ now = 1000
    /\ \A c \in CityNames : cache[c] # None /\ cache[c][1].stamp = 0 /\ reqLog[c] = <<0>>

\* C4: a non-success status gives (None, message): no assessment, no
\* exception, the provider's message when it sent one.
C4_ProviderFailure ==
    (Evaluated /\ resp.kind = "json" /\ resp.cod # Some("200")) =>
        /\ result.exc = None
        /\ result.weather = None
        /\ result.err # None
        /\ resp.message # None => result.err = resp.message
        /\ resp.message = None => result.err = Some("Unknown error")

C4_Witness ==
    /\ Evaluated
    /\ resp.cod = Some("401")
    /\ resp.message = Some("Invalid API key")
    /\ result.err = Some("Invalid API key")
    /\ result.weather = None

\* C5: no fetch failure ends a run early: whatever the fetches returned, no
\* run is aborted before the panel and the map, and a finished run has drawn
\* a marker for every city whose fetch succeeded.
C5_FailureIsolated ==
    /\ pc # "crashed"
    /\ pc = "done" =>
        \A c \in CityNames :
            (cache[c] # None /\ cache[c][1].value.weather # None) =>
                markers[c] = cache[c][1].value.weather

ExcTexts ==
    {"Connection refused", "Expecting value", "'list'", "list index out of range",
     "'main'", "'weather'"}

Malformed(r) ==
    \/ r.kind = "error"
    \/ /\ r.cod = Some("200")
       /\ \/ r.list = None
          \/ r.list[1] = <<>>
          \/ r.list[1][1].main = None
          \/ r.list[1][1].weather = None

\* C6: get_weather never raises; a failed request or an unparsable response
\* comes back as (None, "Request error: ..."), and the one request is not
\* repeated.
C6_NeverRaises ==
    Evaluated =>
        /\ result.exc = None
        /\ result.weather = None <=> result.err # None
        /\ reqLog[city] = <<0>>
        /\ Malformed(resp) =>
            /\ result.weather = None
            /\ result.err \in {Some("Request error: " \o e) : e \in ExcTexts}
            /\ Truthy(result.err)

C6_Witness ==
    /\ Evaluated
    /\ resp.list = Some(<<>>)
    /\ result.err = Some("Request error: list index out of range")
    /\ reqLog[city] = <<0>>

\* C7: without an API key no run gets past the start: no request, no
\* evaluation, no panel, no marker, nothing cached or stored.
C7_NoKeyNoOperation ==
    api_key = None =>
        /\ pc \in {"idle", "startup", "stopped"}
        /\ \A c \in CityNames : reqLog[c] = <<>> /\ cache[c] = None /\ markers[c] = None
        /\ panel = None
        /\ current = None
        /\ errShown = None
        /\ result = NoResult

C7_Witness == api_key = None /\ pc = "stopped" /\ now > 0

Calling(c) ==
    \/ pc = "button" /\ c = city
    \/ pc = "map" /\ idx <= Len(CITIES) /\ c = CITIES[idx]

Responding(c) ==
    \/ pc = "button_wait" /\ c = city
    \/ pc = "map_wait" /\ c = CITIES[idx]

\* C8: an entry younger than 1800 s is never removed or replaced, whatever
\* happens; a call made more than 1800 s after the entry was created sends a
\* request, and the answer to it is returned and becomes the entry.
C8_ExpireByAgeOnly ==
    [][\A c \in CityNames :
        /\ (cache[c] # None /\ now < cache[c][1].stamp + 1800) => cache'[c] = cache[c]
        /\ (Calling(c) /\ cache[c] # None /\ now > cache[c][1].stamp + 1800) =>
              /\ reqLog'[c] = Append(reqLog[c], now)
              /\ Responding(c)'
        /\ Responding(c) /\ ~Responding(c)' =>
              cache'[c] = Some([value |-> result', stamp |-> now])
      ]_vars

C8_Witness ==
    \E c \in CityNames :
        /\ reqLog[c] = <<0, 2000>>
        /\ cache[c] # None
        /\ cache[c][1].stamp = 2000
        /\ cache[c][1].value.weather # None
        /\ \E k \in CityNames : cache[k] # None /\ cache[k][1].stamp = 1000

\* C9: a Failure is cached like an assessment: the answer (None, err) becomes
\* the city's entry, and a call within 1800 s returns it without a request.
C9_FailureCached ==
    [][\A c \in CityNames :
        /\ (Responding(c) /\ ~Responding(c)' /\ result'.weather = None) =>
              cache'[c] = Some([value |-> result', stamp |-> now])
        /\ (/\ Calling(c)
            /\ cache[c] # None
            /\ cache[c][1].value.weather = None
            /\ now < cache[c][1].stamp + 1800) =>
              /\ result' = cache[c][1].value
              /\ reqLog' = reqLog
      ]_vars

C9_Witness ==
    /\ pc = "panel"
    /\ pressed
    /\ errShown = Some("Request error: Connection refused")
    /\ cache[city] # None
    /\ cache[city][1].stamp < now
    /\ result = cache[city][1].value

SameReading(a, b) == a[1].risk = b[1].risk /\ a[1].rain_3h = b[1].rain_3h

\* C10 as stated: whenever the panel and the selected city's marker are both
\* shown, they carry the same risk label and rainfall total.
C10_PanelMatchesMap ==
    (panel # None /\ markers[city] # None) => SameReading(panel, markers[city])

\* C10, amended: they agree whenever no request for that city has been sent
\* since the panel's assessment was stored in the session state.
C10_PanelMatchesMapUnlessRefetched ==
    (panel # None /\ markers[city] # None /\ Len(reqLog[city]) = curReqs) =>
        SameReading(panel, markers[city])

C10_Witness ==
    /\ pc = "done"
    /\ ~pressed
    /\ now = 1000
    /\ panel # None
    /\ markers[city] # None
    /\ Len(reqLog[city]) = curReqs
    /\ panel[1].risk = "HIGH"
====
